---- MODULE Spec2Model ----
(***************************************************************************)
(* Open-scrim acceptance protocol of the scrim scheduling app.             *)
(*                                                                         *)
(* The store is the hosted `scrims` table (and the `Profiles` column       *)
(* primary_team_id).  Clients are the mobile screens ScrimCenter           *)
(* (scrim_center.tsx), ScrimDetails (part_005) and CreateScrim             *)
(* (create-scrim.tsx).  Every supabase call of a handler is a round trip:  *)
(* the handler issues it, the store applies it atomically at some later    *)
(* moment, and the handler continues with the reply.  An update may fail   *)
(* (the store returns `error` and applies nothing); the reads of the       *)
(* screens' loads are taken to succeed.                                    *)
(***************************************************************************)
EXTENDS Naturals, Sequences, FiniteSets

\* ----------------------------------------------------------------- bounds
\* The number of user gestures a behaviour holds: posting a slot, opening or
\* refreshing a screen, pressing Accept or Cancel.
MaxGestures == 5

\* ------------------------------------------------------------ value sets
NULL == "null"
Teams == {"A", "B", "C"}
Users == {"u1", "u2", "u3"}
TeamOrNull == Teams \cup {NULL}

\* The team each user's Profiles row names when the app starts.
InitialTeam(u) == CASE u = "u1" -> "A" [] u = "u2" -> "B" [] OTHER -> "C"

\* The teams a user belongs to (the rows of the Teams list): u2 plays for two.
MyTeams(u) == IF u = "u2" THEN {"A", "B"} ELSE {InitialTeam(u)}

\* The scenario: u1 posts the slots for team A and may invite its own team,
\* another team, or nobody; every user browses, opens and accepts.
Hosts == {"u1"}
InviteChoices == {NULL, "A", "B"}

VARIABLES
    scrims,          \* the scrims table: a sequence of rows, id = index
    profiles,        \* Profiles.primary_team_id per user
    gestures,        \* number of user gestures made so far
    scMyTeamId,      \* ScrimCenter state myTeamId, per user
    scOpenScrims,    \* ScrimCenter state openScrims (ids of the rows), per user
    scRefresh,       \* ScrimCenter onRefresh/init run in flight, per user
    sdScrimId,       \* ScrimDetails route param id (0: screen not open)
    sdMyTeamId,      \* ScrimDetails state myTeamId
    sdScrim,         \* ScrimDetails state scrim: the row copy, or NoScrim
    sdActing,        \* ScrimDetails state acting
    csPrimaryTeamId, \* CreateScrim state primaryTeamId
    calls,           \* accept and cancel invocations, in the order issued
    scRefreshing,    \* ScrimCenter state refreshing, per user
    csForm,          \* CreateScrim: screen open, region, session, errorMsg
    profileRows,     \* number of Profiles rows per user id
    invites,         \* the team_invites table: a sequence of rows, id = index
    members,         \* the team_members table: a sequence of rows
    teams,           \* the teams table: a row per team id, or NoTeam
    runs             \* invocations of the account and team handlers

vars == <<scrims, profiles, gestures, scMyTeamId, scOpenScrims, scRefresh,
          sdScrimId, sdMyTeamId, sdScrim, sdActing, csPrimaryTeamId, calls,
          scRefreshing, csForm, profileRows, invites, members, teams, runs>>

accountVars == <<profileRows, invites, members, teams, runs>>

storeVars == <<scrims, profiles>>

centerVars == <<scMyTeamId, scOpenScrims, scRefresh>>
detailsVars == <<sdScrimId, sdMyTeamId, sdScrim, sdActing>>

SlotIds == 1..Len(scrims)
CallIds == 1..Len(calls)

\* ------------------------------------------------------------- the store
\* A row of the scrims table as submit inserts it: the window is the form's
\* start (1) and start + duration (2).  `writes` is bookkeeping: the number of
\* updates the store has applied to the row since it was inserted.
Row(host, opp) ==
    [host_team_id |-> host, opponent_team_id |-> opp, status |-> "open",
     start_time |-> 1, end_time |-> 2, updated_at |-> 0, writes |-> 0]

\* A read-then-write accept: the update is filtered by id alone, as the cancel
\* update is, and the open/untaken test is left to the screen's copy.
AcceptMatchesIdOnly(tbl, id) == id \in 1..Len(tbl)

\* The filter of the accept update:
\*   .eq('id', scrimId).eq('status', 'open').is('opponent_team_id', null)
AcceptMatches(tbl, id) ==
    /\ id \in 1..Len(tbl)
    /\ tbl[id].status = "open"
    /\ tbl[id].opponent_team_id = NULL

\* An accept update that leaves opponent_team_id out of its payload.
AcceptUpdateStatusOnly(tbl, id, team, ts) ==
    IF AcceptMatches(tbl, id)
    THEN [tbl EXCEPT ![id] = [@ EXCEPT !.status = "confirmed",
                                       !.updated_at = ts,
                                       !.writes = @ + 1]]
    ELSE tbl

\* An accept whose updated_at is written by an unfiltered second update.
AcceptUpdateTouch(tbl, id, team, ts) ==
    IF AcceptMatches(tbl, id)
    THEN [tbl EXCEPT ![id] = [@ EXCEPT !.status = "confirmed",
                                       !.opponent_team_id = team,
                                       !.updated_at = ts,
                                       !.writes = @ + 1]]
    ELSE IF id \in 1..Len(tbl)
    THEN [tbl EXCEPT ![id] = [@ EXCEPT !.updated_at = ts, !.writes = @ + 1]]
    ELSE tbl

\* The table after the store has applied the accept update.
AcceptUpdate(tbl, id, team, ts) ==
    IF AcceptMatches(tbl, id)
    THEN [tbl EXCEPT ![id] = [@ EXCEPT !.status = "confirmed",
                                       !.opponent_team_id = team,
                                       !.updated_at = ts,
                                       !.writes = @ + 1]]
    ELSE tbl

\* What .select('id').maybeSingle() hands back: the row, or no row.
AcceptReply(tbl, id) == IF AcceptMatches(tbl, id) THEN "row" ELSE "empty"

\* The filter of the cancel update: .eq('id', scrimId) and nothing else.
CancelMatches(tbl, id) == id \in 1..Len(tbl)

\* A cancel whose payload also clears the opponent.
CancelUpdateClearsOpponent(tbl, id, ts) ==
    IF CancelMatches(tbl, id)
    THEN [tbl EXCEPT ![id] = [@ EXCEPT !.status = "cancelled",
                                       !.opponent_team_id = NULL,
                                       !.updated_at = ts,
                                       !.writes = @ + 1]]
    ELSE tbl

\* The table after the store has applied the cancel update.
CancelUpdate(tbl, id, ts) ==
    IF CancelMatches(tbl, id)
    THEN [tbl EXCEPT ![id] = [@ EXCEPT !.status = "cancelled",
                                       !.updated_at = ts,
                                       !.writes = @ + 1]]
    ELSE tbl

\* An insert that marks a slot posted with an invited team as pending.
InsertPayloadPending(primaryTeamId, invitedTeam) ==
    [Row(primaryTeamId, invitedTeam) EXCEPT
        !.status = IF invitedTeam = NULL THEN "open" ELSE "pending"]

\* The payload submit inserts.
InsertPayload(primaryTeamId, invitedTeam) == Row(primaryTeamId, invitedTeam)

\* ------------------------------------------------------------ the screens
\* ScrimCenter.loadScrims: the open rows, without my own and without the
\* ones that already have an opponent.
FilteredOpen(tbl, teamId) ==
    {id \in 1..Len(tbl) :
        /\ tbl[id].status = "open"
        /\ ~(teamId # NULL /\ tbl[id].host_team_id = teamId)
        /\ tbl[id].opponent_team_id = NULL}

\* ScrimDetails keeps a copy of the row it loaded; NoScrim is the state
\* `scrim === null` (nothing loaded, or the load failed).
NoScrim == [host_team_id |-> NULL, opponent_team_id |-> NULL, status |-> "none"]
CopyOf(row) ==
    [host_team_id |-> row.host_team_id, opponent_team_id |-> row.opponent_team_id,
     status |-> row.status]

\* What load() leaves in `scrim`: the row .single() returns, or null when no
\* row has the id (.single() then fails and the catch sets scrim to null).
LoadedScrim(tbl, id) ==
    IF id \in 1..Len(tbl) THEN CopyOf(tbl[id]) ELSE NoScrim

\* ScrimDetails memos, over the screen's state (scrim copy, myTeamId).
isHostTeam(scrim, myTeamId) ==
    /\ scrim # NoScrim
    /\ myTeamId # NULL
    /\ scrim.host_team_id = myTeamId

isTakenByOtherTeam(scrim, myTeamId) ==
    /\ scrim # NoScrim
    /\ myTeamId # NULL
    /\ scrim.status = "open"
    /\ scrim.opponent_team_id # NULL
    /\ scrim.opponent_team_id # myTeamId

canAcceptOpen(scrim, myTeamId) ==
    /\ scrim # NoScrim
    /\ myTeamId # NULL
    /\ ~isHostTeam(scrim, myTeamId)
    /\ scrim.status = "open"
    /\ ~isTakenByOtherTeam(scrim, myTeamId)
    /\ scrim.opponent_team_id = NULL

canCancel(scrim, myTeamId) ==
    /\ scrim # NoScrim
    /\ isHostTeam(scrim, myTeamId)
    /\ scrim.status # "cancelled"

\* An invocation of acceptOpenScrim, doAcceptOpen or doCancel.
\*   pc     : "sent" (update issued), "replied" (the store has answered),
\*            "reload" (ScrimCenter: between loadMyTeam and loadScrims), "done"
\*   reply  : "none"; accept: "row", "empty", "error"; cancel: "ok", "error"
\*   branch : the branch the handler took: "none", "success", "taken", "error"
\*   teamId : ScrimCenter: the `const teamId` of the handler's reload
\*   retry  : bookkeeping: the user presses Accept again, an earlier accept of
\*            theirs for this slot and team having ended in the catch
\*   seen   : bookkeeping: the status the screen showed for the slot when the
\*            button was pressed (ScrimCenter lists open slots only)
NewCall(u, screen, kind, id, team, ts) ==
    [user |-> u, screen |-> screen, kind |-> kind, scrimId |-> id, team |-> team,
     ts |-> ts, pc |-> "sent", reply |-> "none", branch |-> "none",
     teamId |-> NULL,
     seen |-> IF screen = "details" THEN sdScrim[u].status ELSE "open",
     retry |-> /\ kind = "accept"
               /\ \E c \in 1..Len(calls) :
                     /\ calls[c].user = u
                     /\ calls[c].kind = "accept"
                     /\ calls[c].scrimId = id
                     /\ calls[c].team = team
                     /\ calls[c].branch = "error"]

\* The branches with .single() in place of .maybeSingle(): no row is an error.
BranchOfSingle(reply) ==
    CASE reply = "error" -> "error"
      [] reply = "empty" -> "error"
      [] OTHER -> "success"

\* The branch a handler takes on the reply of its update.
\*   if (error) throw error;  if (!updated?.id) { already taken }  else success
BranchOf(reply) ==
    CASE reply = "error" -> "error"
      [] reply = "empty" -> "taken"
      [] OTHER -> "success"

\* A handler that issues its update again when the store answers with no row.
NextStepRetry(screen, branch) ==
    CASE branch = "taken" -> "sent"
      [] screen = "center" /\ branch # "error" -> "reload"
      [] OTHER -> "done"

\* Where a handler goes after its branch.  ScrimCenter: the catch ends the
\* handler, both other branches reload (loadMyTeam, then loadScrims).
\* ScrimDetails: load() is awaited inside the same step, then the handler ends.
NextStep(screen, branch) ==
    CASE screen = "center" /\ branch # "error" -> "reload"
      [] OTHER -> "done"

\* A guard that lets every invocation through.
HasTeamAlways(myTeamId) == TRUE

\* The guard of both accept handlers: if (!myTeamId) return.
HasTeam(myTeamId) == myTeamId # NULL

\* CreateScrim's form: the screen is open, the region (set from
\* Profiles.primary_region at mount, or picked), whether getSession() finds a
\* user, and errorMsg.  NoForm: the screen is not open.
NoForm == [open |-> FALSE, region |-> NULL, session |-> FALSE, errorMsg |-> NULL]
OpenForm(region, session) ==
    [open |-> TRUE, region |-> region, session |-> session, errorMsg |-> NULL]

\* Profiles.primary_region of the users.
PrimaryRegion(u) == "NA"

\* A submit that checks only the primary team.
SubmitAllowedTeamOnly(primaryTeamId, region, session) == primaryTeamId # NULL

\* submit's three early returns passed: primary team, region, session user.
SubmitAllowed(primaryTeamId, region, session) ==
    /\ primaryTeamId # NULL
    /\ region # NULL
    /\ session

\* The owner of each team (teams.owner_id as onCreate inserted it).
OwnerOf(t) == CASE t = "A" -> "u1" [] t = "B" -> "u2" [] OTHER -> "u3"

\* The account tables at rest: every user has their Profiles row, each team
\* its row, nobody is invited, and no handler is running.
AccountInit ==
    /\ profileRows = [u \in Users |-> 1]
    /\ invites = <<>>
    /\ members = <<>>
    /\ teams = [t \in Teams |-> [owner_id |-> OwnerOf(t), name |-> 1]]
    /\ runs = <<>>

\* ------------------------------------------------------------------ Init
Init ==
    /\ scrims = <<>>
    /\ profiles = [u \in Users |-> InitialTeam(u)]
    /\ gestures = 0
    /\ scMyTeamId = [u \in Users |-> NULL]
    /\ scOpenScrims = [u \in Users |-> {}]
    /\ scRefresh = [u \in Users |-> [pc |-> "idle", teamId |-> NULL, kind |-> "none"]]
    /\ sdScrimId = [u \in Users |-> 0]
    /\ sdMyTeamId = [u \in Users |-> NULL]
    /\ sdScrim = [u \in Users |-> NoScrim]
    /\ sdActing = [u \in Users |-> FALSE]
    /\ csPrimaryTeamId = [u \in Users |-> NULL]
    /\ calls = <<>>
    /\ scRefreshing = [u \in Users |-> FALSE]
    /\ csForm = [u \in Users |-> NoForm]
    /\ AccountInit

\* --------------------------------------------------------------- Profiles
\* Teams list, onSetPrimary: the user makes another of their teams primary.
onSetPrimary(u, teamId) ==
    /\ teamId \in MyTeams(u)
    /\ teamId # profiles[u]
    /\ profiles' = [profiles EXCEPT ![u] = teamId]
    /\ UNCHANGED <<scrims, gestures, centerVars, detailsVars, csPrimaryTeamId, calls>>
    /\ UNCHANGED <<scRefreshing, csForm, accountVars>>

\* ------------------------------------------------------------ CreateScrim
\* The screen's mount effect: primaryTeamId := Profiles.primary_team_id.
CreateScrimInit(u) ==
    /\ gestures < MaxGestures
    /\ csPrimaryTeamId[u] # profiles[u]
    /\ csPrimaryTeamId' = [csPrimaryTeamId EXCEPT ![u] = profiles[u]]
    /\ csForm' = [csForm EXCEPT ![u] = OpenForm(PrimaryRegion(u), TRUE)]
    /\ UNCHANGED <<storeVars, gestures, centerVars, detailsVars, calls>>
    /\ UNCHANGED <<scRefreshing, accountVars>>

\* submit: one insert, with the team picked under "Invite opponent" (any team
\* searchTeams finds) or null; router.back() then closes the screen.
submit(u, invitedTeam) ==
    /\ csForm[u].open
    /\ SubmitAllowed(csPrimaryTeamId[u], csForm[u].region, csForm[u].session)
    /\ gestures < MaxGestures
    /\ gestures' = gestures + 1
    /\ scrims' = Append(scrims, InsertPayload(csPrimaryTeamId[u], invitedTeam))
    /\ csPrimaryTeamId' = [csPrimaryTeamId EXCEPT ![u] = NULL]
    /\ csForm' = [csForm EXCEPT ![u] = NoForm]
    /\ UNCHANGED <<profiles, centerVars, detailsVars, calls>>
    /\ UNCHANGED <<scRefreshing, accountVars>>

\* ------------------------------------------------------------ ScrimCenter
\* init / onRefresh, first half: loadMyTeam reads Profiles and sets myTeamId.
\* onRefresh (pull to refresh) raises `refreshing` first; init (the mount)
\* does not.  The first load of a screen is its mount, every later one a pull.
loadMyTeam(u) ==
    /\ scRefresh[u].pc = "idle"
    /\ gestures < MaxGestures
    /\ gestures' = gestures + 1
    /\ scMyTeamId' = [scMyTeamId EXCEPT ![u] = profiles[u]]
    /\ LET kind == IF scMyTeamId[u] = NULL THEN "init" ELSE "onRefresh" IN
          /\ scRefresh' = [scRefresh EXCEPT ![u] = [pc |-> "loadScrims",
                                                    teamId |-> profiles[u],
                                                    kind |-> kind]]
          /\ scRefreshing' = [scRefreshing EXCEPT
                                 ![u] = IF kind = "onRefresh" THEN TRUE ELSE @]
    /\ UNCHANGED <<storeVars, scOpenScrims, detailsVars, csPrimaryTeamId, calls>>
    /\ UNCHANGED <<csForm, accountVars>>

\* init / onRefresh, second half: loadScrims(teamId) reads the open rows and
\* sets openScrims.
loadScrims(u) ==
    /\ scRefresh[u].pc = "loadScrims"
    /\ scOpenScrims' = [scOpenScrims EXCEPT
                            ![u] = FilteredOpen(scrims, scRefresh[u].teamId)]
    /\ scRefresh' = [scRefresh EXCEPT ![u] = [pc |-> "idle", teamId |-> NULL,
                                              kind |-> "none"]]
    /\ scRefreshing' = [scRefreshing EXCEPT
                           ![u] = IF scRefresh[u].kind = "onRefresh" THEN FALSE ELSE @]
    /\ UNCHANGED <<storeVars, gestures, scMyTeamId, detailsVars, csPrimaryTeamId, calls>>
    /\ UNCHANGED <<csForm, accountVars>>

\* acceptOpenScrim up to its await: the "Accept Scrim" button of a listed row
\* is pressed and the conditional update is issued with the screen's myTeamId.
acceptOpenScrim(u, scrimId) ==
    /\ gestures < MaxGestures
    /\ gestures' = gestures + 1
    /\ scrimId \in scOpenScrims[u]
    /\ HasTeam(scMyTeamId[u])
    /\ scRefreshing' = [scRefreshing EXCEPT ![u] = TRUE]
    /\ calls' = Append(calls, NewCall(u, "center", "accept", scrimId,
                                      scMyTeamId[u], Len(calls) + 1))
    /\ UNCHANGED <<storeVars, centerVars, detailsVars, csPrimaryTeamId>>
    /\ UNCHANGED <<csForm, accountVars>>

\* acceptOpenScrim after the await: the branch on the reply, then loadMyTeam;
\* the catch falls through to the finally, which lowers `refreshing`.
acceptOpenScrimReplied(c) ==
    /\ calls[c].screen = "center"
    /\ calls[c].pc = "replied"
    /\ LET u == calls[c].user
           b == BranchOf(calls[c].reply)
       IN IF b = "error"
          THEN /\ calls' = [calls EXCEPT ![c].branch = b,
                                         ![c].pc = NextStep("center", b)]
               /\ scRefreshing' = [scRefreshing EXCEPT ![u] = FALSE]
               /\ UNCHANGED scMyTeamId
          ELSE /\ calls' = [calls EXCEPT ![c].branch = b,
                                         ![c].pc = NextStep("center", b),
                                         ![c].teamId = profiles[u]]
               /\ scMyTeamId' = [scMyTeamId EXCEPT ![u] = profiles[u]]
               /\ UNCHANGED scRefreshing
    /\ UNCHANGED <<storeVars, gestures, scOpenScrims, scRefresh, detailsVars,
                   csPrimaryTeamId>>
    /\ UNCHANGED <<csForm, accountVars>>

\* acceptOpenScrim, the end of its reload: loadScrims(teamId), then the
\* finally.
acceptOpenScrimReload(c) ==
    /\ calls[c].screen = "center"
    /\ calls[c].pc = "reload"
    /\ scOpenScrims' = [scOpenScrims EXCEPT
                            ![calls[c].user] = FilteredOpen(scrims, calls[c].teamId)]
    /\ calls' = [calls EXCEPT ![c].pc = "done", ![c].teamId = NULL]
    /\ scRefreshing' = [scRefreshing EXCEPT ![calls[c].user] = FALSE]
    /\ UNCHANGED <<storeVars, gestures, scMyTeamId, scRefresh, detailsVars, csPrimaryTeamId>>
    /\ UNCHANGED <<csForm, accountVars>>

\* ----------------------------------------------------------- ScrimDetails
\* load: the screen opens on a row (route param id) or "Refresh" is pressed.
load(u, id) ==
    /\ ~sdActing[u]
    /\ sdScrimId' = [sdScrimId EXCEPT ![u] = id]
    /\ sdMyTeamId' = [sdMyTeamId EXCEPT ![u] = profiles[u]]
    /\ sdScrim' = [sdScrim EXCEPT ![u] = LoadedScrim(scrims, id)]
    /\ gestures < MaxGestures
    /\ gestures' = gestures + 1
    /\ UNCHANGED <<storeVars, centerVars, sdActing, csPrimaryTeamId, calls>>
    /\ UNCHANGED <<scRefreshing, csForm, accountVars>>

\* doAcceptOpen up to its await; the button is rendered under
\* myTeamId && canAcceptOpen and disabled while acting.
doAcceptOpen(u) ==
    /\ gestures < MaxGestures
    /\ gestures' = gestures + 1
    /\ sdScrimId[u] # 0
    /\ HasTeam(sdMyTeamId[u])
    /\ canAcceptOpen(sdScrim[u], sdMyTeamId[u])
    /\ ~sdActing[u]
    /\ sdActing' = [sdActing EXCEPT ![u] = TRUE]
    /\ calls' = Append(calls, NewCall(u, "details", "accept", sdScrimId[u],
                                      sdMyTeamId[u], Len(calls) + 1))
    /\ UNCHANGED <<storeVars, centerVars, sdScrimId, sdMyTeamId, sdScrim,
                   csPrimaryTeamId>>
    /\ UNCHANGED <<scRefreshing, csForm, accountVars>>

\* doCancel up to its await; the button is rendered under
\* myTeamId && canCancel and disabled while acting.
doCancel(u) ==
    /\ gestures < MaxGestures
    /\ gestures' = gestures + 1
    /\ sdScrimId[u] # 0
    /\ sdMyTeamId[u] # NULL
    /\ canCancel(sdScrim[u], sdMyTeamId[u])
    /\ ~sdActing[u]
    /\ sdActing' = [sdActing EXCEPT ![u] = TRUE]
    /\ calls' = Append(calls, NewCall(u, "details", "cancel", sdScrimId[u],
                                      sdMyTeamId[u], Len(calls) + 1))
    /\ UNCHANGED <<storeVars, centerVars, sdScrimId, sdMyTeamId, sdScrim,
                   csPrimaryTeamId>>
    /\ UNCHANGED <<scRefreshing, csForm, accountVars>>

\* doAcceptOpen / doCancel after the await: the branch on the reply, load()
\* unless the store call failed, and finally setActing(false).
detailsReplied(c) ==
    /\ calls[c].screen = "details"
    /\ calls[c].pc = "replied"
    /\ LET u == calls[c].user
           b == BranchOf(calls[c].reply)
       IN /\ calls' = [calls EXCEPT ![c].branch = b,
                                    ![c].pc = NextStep("details", b)]
          /\ sdActing' = [sdActing EXCEPT ![u] = FALSE]
          /\ IF b = "error"
             THEN UNCHANGED <<sdMyTeamId, sdScrim>>
             ELSE /\ sdMyTeamId' = [sdMyTeamId EXCEPT ![u] = profiles[u]]
                  /\ sdScrim' = [sdScrim EXCEPT
                                    ![u] = LoadedScrim(scrims, sdScrimId[u])]
    /\ UNCHANGED <<storeVars, gestures, centerVars, sdScrimId, csPrimaryTeamId>>
    /\ UNCHANGED <<scRefreshing, csForm, accountVars>>

\* -------------------------------------------------------------- the store
\* The store applies an accept update and answers it.
StoreAccept(c) ==
    /\ calls[c].kind = "accept"
    /\ calls[c].pc = "sent"
    /\ scrims' = AcceptUpdate(scrims, calls[c].scrimId, calls[c].team, calls[c].ts)
    /\ calls' = [calls EXCEPT ![c].pc = "replied",
                              ![c].reply = AcceptReply(scrims, calls[c].scrimId)]
    /\ UNCHANGED <<profiles, gestures, centerVars, detailsVars, csPrimaryTeamId>>
    /\ UNCHANGED <<scRefreshing, csForm, accountVars>>

\* The store applies a cancel update and answers it.
StoreCancel(c) ==
    /\ calls[c].kind = "cancel"
    /\ calls[c].pc = "sent"
    /\ scrims' = CancelUpdate(scrims, calls[c].scrimId, calls[c].ts)
    /\ calls' = [calls EXCEPT ![c].pc = "replied", ![c].reply = "ok"]
    /\ UNCHANGED <<profiles, gestures, centerVars, detailsVars, csPrimaryTeamId>>
    /\ UNCHANGED <<scRefreshing, csForm, accountVars>>

\* The store call fails: the update is not applied and `error` is returned.
StoreError(c) ==
    /\ calls[c].pc = "sent"
    /\ calls' = [calls EXCEPT ![c].pc = "replied", ![c].reply = "error"]
    /\ UNCHANGED <<storeVars, gestures, centerVars, detailsVars, csPrimaryTeamId>>
    /\ UNCHANGED <<scRefreshing, csForm, accountVars>>

Next ==
    \/ \E u \in Users, t \in Teams : onSetPrimary(u, t)
    \/ \E u \in Hosts : CreateScrimInit(u)
    \/ \E u \in Hosts, t \in InviteChoices : submit(u, t)
    \/ \E u \in Users : loadMyTeam(u)
    \/ \E u \in Users : loadScrims(u)
    \/ \E u \in Users, id \in SlotIds : acceptOpenScrim(u, id)
    \/ \E c \in CallIds : acceptOpenScrimReplied(c)
    \/ \E c \in CallIds : acceptOpenScrimReload(c)
    \/ \E u \in Users, id \in SlotIds : load(u, id)
    \/ \E u \in Users : doAcceptOpen(u)
    \/ \E u \in Users : doCancel(u)
    \/ \E c \in CallIds : detailsReplied(c)
    \/ \E c \in CallIds : StoreAccept(c)
    \/ \E c \in CallIds : StoreCancel(c)
    \/ \E c \in CallIds : StoreError(c)

Spec == Init /\ [][Next]_vars

\* ------------------------------------------- browsing after a row has gone
\* The app never deletes a scrims row, but the hosted table is not the app's
\* alone: a row can go while screens still show it.  This specification starts
\* two gestures into a behaviour: team A has posted slot 1 and its user has
\* ScrimDetails open on it, every ScrimCenter has loaded, and the screens of
\* one other user still show a second slot of team A, id 2, that the table
\* holds no longer.  No slot is posted from here on.
ShownIds == {1, 2}
StaleUsers == {"u3"}

InitPosted ==
    /\ scrims = <<Row("A", NULL)>>
    /\ profiles = [u \in Users |-> InitialTeam(u)]
    /\ gestures = 2
    /\ scMyTeamId = [u \in Users |-> InitialTeam(u)]
    /\ scOpenScrims =
          [u \in Users |->
              FilteredOpen(scrims, InitialTeam(u))
              \cup (IF u \in StaleUsers THEN {2} ELSE {})]
    /\ scRefresh = [u \in Users |-> [pc |-> "idle", teamId |-> NULL, kind |-> "none"]]
    /\ sdScrimId = [u \in Users |->
                       IF u \in StaleUsers THEN 2 ELSE IF u \in Hosts THEN 1 ELSE 0]
    /\ sdMyTeamId = [u \in Users |->
                        IF u \in StaleUsers \cup Hosts THEN InitialTeam(u) ELSE NULL]
    /\ sdScrim = [u \in Users |->
                     IF u \in StaleUsers \cup Hosts
                     THEN CopyOf(Row("A", NULL)) ELSE NoScrim]
    /\ sdActing = [u \in Users |-> FALSE]
    /\ csPrimaryTeamId = [u \in Users |-> NULL]
    /\ calls = <<>>
    /\ scRefreshing = [u \in Users |-> FALSE]
    /\ csForm = [u \in Users |-> NoForm]
    /\ AccountInit

NextPosted ==
    \/ \E u \in Users : loadMyTeam(u)
    \/ \E u \in Users : loadScrims(u)
    \/ \E u \in Users, id \in ShownIds : acceptOpenScrim(u, id)
    \/ \E c \in CallIds : acceptOpenScrimReplied(c)
    \/ \E c \in CallIds : acceptOpenScrimReload(c)
    \/ \E u \in Users, id \in ShownIds : load(u, id)
    \/ \E u \in Users : doAcceptOpen(u)
    \/ \E u \in Users : doCancel(u)
    \/ \E c \in CallIds : detailsReplied(c)
    \/ \E c \in CallIds : StoreAccept(c)
    \/ \E c \in CallIds : StoreCancel(c)
    \/ \E c \in CallIds : StoreError(c)

SpecPosted == InitPosted /\ [][NextPosted]_vars

\* Every store call returns and every handler runs on after its await: the
\* steps that need no gesture are taken when they stay possible.
Progress ==
    \E c \in CallIds :
        \/ StoreAccept(c)
        \/ StoreCancel(c)
        \/ StoreError(c)
        \/ acceptOpenScrimReplied(c)
        \/ acceptOpenScrimReload(c)
        \/ detailsReplied(c)

\* The state of SpecPosted one gesture later: the user of team B has pressed
\* Accept on slot 1 in ScrimCenter and the update is on its way (`refreshing`
\* is raised).  From here every store call returns.
InitInFlight ==
    /\ scrims = <<Row("A", NULL)>>
    /\ profiles = [u \in Users |-> InitialTeam(u)]
    /\ gestures = 3
    /\ scMyTeamId = [u \in Users |-> InitialTeam(u)]
    /\ scOpenScrims =
          [u \in Users |->
              FilteredOpen(scrims, InitialTeam(u))
              \cup (IF u \in StaleUsers THEN {2} ELSE {})]
    /\ scRefresh = [u \in Users |-> [pc |-> "idle", teamId |-> NULL, kind |-> "none"]]
    /\ sdScrimId = [u \in Users |->
                       IF u \in StaleUsers THEN 2 ELSE IF u \in Hosts THEN 1 ELSE 0]
    /\ sdMyTeamId = [u \in Users |->
                        IF u \in StaleUsers \cup Hosts THEN InitialTeam(u) ELSE NULL]
    /\ sdScrim = [u \in Users |->
                     IF u \in StaleUsers \cup Hosts
                     THEN CopyOf(Row("A", NULL)) ELSE NoScrim]
    /\ sdActing = [u \in Users |-> FALSE]
    /\ csPrimaryTeamId = [u \in Users |-> NULL]
    /\ calls = <<[user |-> "u2", screen |-> "center", kind |-> "accept",
                  scrimId |-> 1, team |-> InitialTeam("u2"), ts |-> 1,
                  pc |-> "sent", reply |-> "none", branch |-> "none",
                  teamId |-> NULL, seen |-> "open", retry |-> FALSE]>>
    /\ scRefreshing = [u \in Users |-> u = "u2"]
    /\ csForm = [u \in Users |-> NoForm]
    /\ AccountInit

FairInFlight == InitInFlight /\ [][NextPosted]_vars /\ WF_vars(Progress)

\* ------------------------------------------------- the handlers' own guards
\* The handlers test their preconditions again, whatever the buttons show.
\* acceptOpenScrim with myTeamId null: sets errorMsg ('You need a team to
\* accept scrims...') and returns before the try; the invocation is recorded
\* as ended in branch "noteam", and no update is issued.
acceptOpenScrimNoTeam(u, scrimId) ==
    /\ gestures < MaxGestures
    /\ gestures' = gestures + 1
    /\ scrimId \in scOpenScrims[u]
    /\ ~HasTeam(scMyTeamId[u])
    /\ calls' = Append(calls,
                       [NewCall(u, "center", "accept", scrimId, scMyTeamId[u],
                                Len(calls) + 1)
                            EXCEPT !.pc = "done", !.branch = "noteam"])
    /\ UNCHANGED <<storeVars, centerVars, detailsVars, csPrimaryTeamId>>
    /\ UNCHANGED <<scRefreshing, csForm, accountVars>>

\* doAcceptOpen with myTeamId null: `if (!scrimId || !myTeamId) return;`.
doAcceptOpenNoTeam(u) ==
    /\ gestures < MaxGestures
    /\ gestures' = gestures + 1
    /\ sdScrimId[u] # 0
    /\ ~HasTeam(sdMyTeamId[u])
    /\ calls' = Append(calls,
                       [NewCall(u, "details", "accept", sdScrimId[u],
                                sdMyTeamId[u], Len(calls) + 1)
                            EXCEPT !.pc = "done", !.branch = "noteam"])
    /\ UNCHANGED <<storeVars, centerVars, detailsVars, csPrimaryTeamId>>
    /\ UNCHANGED <<scRefreshing, csForm, accountVars>>

\* The message submit sets when it returns early, in the order of its tests.
SubmitError(primaryTeamId, region, session) ==
    CASE primaryTeamId = NULL -> "No primary team set"
      [] region = NULL -> "Pick a region."
      [] OTHER -> "Not signed in."

\* submit returning early: errorMsg is set, nothing is inserted, the screen
\* stays open.
submitRejected(u) ==
    /\ csForm[u].open
    /\ ~SubmitAllowed(csPrimaryTeamId[u], csForm[u].region, csForm[u].session)
    /\ gestures < MaxGestures
    /\ gestures' = gestures + 1
    /\ csForm' = [csForm EXCEPT
                     ![u].errorMsg = SubmitError(csPrimaryTeamId[u],
                                                 csForm[u].region,
                                                 csForm[u].session)]
    /\ UNCHANGED <<storeVars, centerVars, detailsVars, csPrimaryTeamId, calls>>
    /\ UNCHANGED <<scRefreshing, accountVars>>

\* The region picker of CreateScrim.
setRegion(u, r) ==
    /\ csForm[u].open
    /\ csForm[u].region # r
    /\ gestures < MaxGestures
    /\ gestures' = gestures + 1
    /\ csForm' = [csForm EXCEPT ![u].region = r]
    /\ UNCHANGED <<storeVars, centerVars, detailsVars, csPrimaryTeamId, calls>>
    /\ UNCHANGED <<scRefreshing, accountVars>>

\* This specification starts two gestures into a behaviour, as SpecPosted
\* does, with a user who has no primary team: team A has posted slot 1, every
\* ScrimCenter has loaded (the team-less user's list holds every open slot),
\* the team-less user has ScrimDetails open on slot 1, and the poster and the
\* team-less user have CreateScrim open, with or without a region in their
\* profile and with or without a live session.
NoTeamUsers == {"u3"}
GuardTeam(u) == IF u \in NoTeamUsers THEN NULL ELSE InitialTeam(u)
Regions == {"NA"}

InitGuards ==
    /\ scrims = <<Row("A", NULL)>>
    /\ profiles = [u \in Users |-> GuardTeam(u)]
    /\ gestures = 2
    /\ scMyTeamId = [u \in Users |-> GuardTeam(u)]
    /\ scOpenScrims = [u \in Users |-> FilteredOpen(scrims, GuardTeam(u))]
    /\ scRefresh = [u \in Users |-> [pc |-> "idle", teamId |-> NULL, kind |-> "none"]]
    /\ sdScrimId = [u \in Users |-> IF u \in NoTeamUsers THEN 1 ELSE 0]
    /\ sdMyTeamId = [u \in Users |-> NULL]
    /\ sdScrim = [u \in Users |->
                     IF u \in NoTeamUsers THEN CopyOf(Row("A", NULL)) ELSE NoScrim]
    /\ sdActing = [u \in Users |-> FALSE]
    /\ csPrimaryTeamId = [u \in Users |->
                             IF u \in Hosts \cup NoTeamUsers THEN GuardTeam(u) ELSE NULL]
    /\ calls = <<>>
    /\ scRefreshing = [u \in Users |-> FALSE]
    /\ \E rh, rn \in Regions \cup {NULL}, sh, sn \in BOOLEAN :
          csForm = [u \in Users |->
                       IF u \in Hosts THEN OpenForm(rh, sh)
                       ELSE IF u \in NoTeamUsers THEN OpenForm(rn, sn)
                       ELSE NoForm]
    /\ AccountInit

NextGuards ==
    \/ \E u \in Hosts : CreateScrimInit(u)
    \/ \E u \in Users, t \in InviteChoices : submit(u, t)
    \/ \E u \in Users : submitRejected(u)
    \/ \E u \in Users, r \in Regions : setRegion(u, r)
    \/ \E u \in Users : loadMyTeam(u)
    \/ \E u \in Users : loadScrims(u)
    \/ \E u \in Users, id \in SlotIds : acceptOpenScrim(u, id)
    \/ \E u \in Users, id \in SlotIds : acceptOpenScrimNoTeam(u, id)
    \/ \E c \in CallIds : acceptOpenScrimReplied(c)
    \/ \E c \in CallIds : acceptOpenScrimReload(c)
    \/ \E u \in Users, id \in SlotIds : load(u, id)
    \/ \E u \in Users : doAcceptOpen(u)
    \/ \E u \in Users : doAcceptOpenNoTeam(u)
    \/ \E u \in Users : doCancel(u)
    \/ \E c \in CallIds : detailsReplied(c)
    \/ \E c \in CallIds : StoreAccept(c)
    \/ \E c \in CallIds : StoreCancel(c)
    \/ \E c \in CallIds : StoreError(c)

SpecGuards == InitGuards /\ [][NextGuards]_vars

\* ------------------------------------------------------ profiles and teams
\* The root layout, the Teams screen and the team form work on the tables
\* Profiles, team_invites, team_members and teams.  Their specifications leave
\* the scrim screens closed and the scrims table empty.
screenVars == <<scMyTeamId, scOpenScrims, scRefresh, sdScrimId, sdMyTeamId,
                sdScrim, sdActing, csPrimaryTeamId, calls, scRefreshing, csForm>>

ScreensInit ==
    /\ scrims = <<>>
    /\ scMyTeamId = [u \in Users |-> NULL]
    /\ scOpenScrims = [u \in Users |-> {}]
    /\ scRefresh = [u \in Users |-> [pc |-> "idle", teamId |-> NULL, kind |-> "none"]]
    /\ sdScrimId = [u \in Users |-> 0]
    /\ sdMyTeamId = [u \in Users |-> NULL]
    /\ sdScrim = [u \in Users |-> NoScrim]
    /\ sdActing = [u \in Users |-> FALSE]
    /\ csPrimaryTeamId = [u \in Users |-> NULL]
    /\ calls = <<>>
    /\ scRefreshing = [u \in Users |-> FALSE]
    /\ csForm = [u \in Users |-> NoForm]

RunIds == 1..Len(runs)

\* ------------------------------------------------------------ root layout
\* The users who signed up and have no Profiles row yet.  The specification
\* starts when two gestures (the sign-ups) have been made.
NewUsers == {"u2", "u3"}

\* ensureProfileRow is started by init (the boot of the app with a stored
\* session, once per mount) and by the onAuthStateChange callback (every auth
\* event with a session, the initial one included); `from` names which.  Its
\* first await is the select of the row by id.
ensureProfileRow(u, from) ==
    /\ from = "init" => \A r \in RunIds : ~(runs[r].user = u /\ runs[r].from = "init")
    /\ gestures < MaxGestures
    /\ gestures' = gestures + 1
    /\ runs' = Append(runs, [op |-> "ensureProfileRow", user |-> u, from |-> from,
                             pc |-> "select", issued |-> FALSE, insErr |-> FALSE])
    /\ UNCHANGED <<storeVars, screenVars, profileRows, invites, members, teams>>

\* The select returns: with a row the run ends; without one it issues the
\* insert (`if (!existing?.id)`).
ensureSelected(r) ==
    /\ runs[r].op = "ensureProfileRow"
    /\ runs[r].pc = "select"
    /\ runs' = [runs EXCEPT
                   ![r].pc = IF profileRows[runs[r].user] > 0 THEN "done" ELSE "insert",
                   ![r].issued = (profileRows[runs[r].user] = 0)]
    /\ UNCHANGED <<storeVars, gestures, screenVars, profileRows, invites, members, teams>>

\* The select fails (`if (fetchErr) return`).
ensureFetchError(r) ==
    /\ runs[r].op = "ensureProfileRow"
    /\ runs[r].pc = "select"
    /\ runs' = [runs EXCEPT ![r].pc = "done"]
    /\ UNCHANGED <<storeVars, gestures, screenVars, profileRows, invites, members, teams>>

\* The store applies the insert.  The repository holds no schema: a table
\* without a key on id takes a second row for the same id.
StoreInsertProfile(r) ==
    /\ runs[r].op = "ensureProfileRow"
    /\ runs[r].pc = "insert"
    /\ profileRows' = [profileRows EXCEPT ![runs[r].user] = @ + 1]
    /\ runs' = [runs EXCEPT ![r].pc = "done"]
    /\ UNCHANGED <<storeVars, gestures, screenVars, invites, members, teams>>

\* With a key on id the store rejects the insert for an id it holds; the
\* handler logs insErr.
StoreInsertProfileDuplicate(r) ==
    /\ runs[r].op = "ensureProfileRow"
    /\ runs[r].pc = "insert"
    /\ profileRows[runs[r].user] > 0
    /\ runs' = [runs EXCEPT ![r].pc = "done", ![r].insErr = TRUE]
    /\ UNCHANGED <<storeVars, gestures, screenVars, profileRows, invites, members, teams>>

InitProfiles ==
    /\ ScreensInit
    /\ gestures = 2
    /\ profiles = [u \in Users |-> IF u \in NewUsers THEN NULL ELSE InitialTeam(u)]
    /\ profileRows = [u \in Users |-> IF u \in NewUsers THEN 0 ELSE 1]
    /\ invites = <<>>
    /\ members = <<>>
    /\ teams = [t \in Teams |-> [owner_id |-> OwnerOf(t), name |-> 1]]
    /\ runs = <<>>

NextProfiles ==
    \/ \E u \in Users, from \in {"init", "onAuthStateChange"} : ensureProfileRow(u, from)
    \/ \E r \in RunIds : ensureSelected(r)
    \/ \E r \in RunIds : ensureFetchError(r)
    \/ \E r \in RunIds : StoreInsertProfile(r)
    \/ \E r \in RunIds : StoreInsertProfileDuplicate(r)

SpecProfiles == InitProfiles /\ [][NextProfiles]_vars

\* ------------------------------------------------------------ team invites
\* The scenario: the owner of team A (on one or two devices) invites the two
\* other users, who accept or decline on the Teams screen.  The specification
\* starts two gestures into a behaviour (both were spent outside these
\* tables), with no invite sent yet.
InviteIds == 1..Len(invites)
InvitedUsers == {"u2", "u3"}

PendingInvites(t, target) ==
    {i \in InviteIds : /\ invites[i].team_id = t
                       /\ invites[i].invited_user_id = target
                       /\ invites[i].status = "pending"}

MemberRows(t, u) ==
    {m \in 1..Len(members) : members[m].team_id = t /\ members[m].user_id = u}

\* invite up to its select of a pending invite: the owner of the primary team
\* is signed in and the target is another user.
invite(u, t, target) ==
    /\ gestures < MaxGestures
    /\ gestures' = gestures + 1
    /\ OwnerOf(t) = u
    /\ target # u
    /\ runs' = Append(runs, [op |-> "invite", user |-> u, team |-> t,
                             target |-> target, pc |-> "select", msg |-> NULL])
    /\ UNCHANGED <<storeVars, screenVars, profileRows, invites, members, teams>>

\* The select returns (.maybeSingle(): one row, none, or an error on several);
\* with a row the handler reports it, with none it issues the insert.
inviteSelected(r) ==
    /\ runs[r].op = "invite"
    /\ runs[r].pc = "select"
    /\ LET n == Cardinality(PendingInvites(runs[r].team, runs[r].target)) IN
          runs' = [runs EXCEPT
                      ![r].pc = IF n = 0 THEN "insert" ELSE "done",
                      ![r].msg = CASE n = 0 -> NULL
                                   [] n = 1 -> "This player already has a pending invite."
                                   [] OTHER -> "error"]
    /\ UNCHANGED <<storeVars, gestures, screenVars, profileRows, invites, members, teams>>

\* The store applies the insert of the pending invite.
StoreInsertInvite(r) ==
    /\ runs[r].op = "invite"
    /\ runs[r].pc = "insert"
    /\ invites' = Append(invites, [team_id |-> runs[r].team,
                                   invited_user_id |-> runs[r].target,
                                   invited_by |-> runs[r].user,
                                   status |-> "pending"])
    /\ runs' = [runs EXCEPT ![r].pc = "done", ![r].msg = "Invite sent"]
    /\ UNCHANGED <<storeVars, gestures, screenVars, profileRows, members, teams>>

\* acceptInvite up to its first await: the Teams screen lists the user's
\* pending invites; step 1 is the insert of the membership.
acceptInvite(u, i) ==
    /\ gestures < MaxGestures
    /\ gestures' = gestures + 1
    /\ invites[i].invited_user_id = u
    /\ invites[i].status = "pending"
    /\ runs' = Append(runs, [op |-> "acceptInvite", user |-> u, invite |-> i,
                             team |-> invites[i].team_id, pc |-> "insertMember",
                             inserted |-> FALSE, msg |-> NULL])
    /\ UNCHANGED <<storeVars, screenVars, profileRows, invites, members, teams>>

\* The store applies step 1.  team_members holds one row per team and user
\* (onCreate of the team form expects a 'duplicate' error from this insert);
\* on the error the handler throws and step 2 is not issued.
StoreInsertMember(r) ==
    /\ runs[r].op = "acceptInvite"
    /\ runs[r].pc = "insertMember"
    /\ IF MemberRows(runs[r].team, runs[r].user) = {}
       THEN /\ members' = Append(members, [team_id |-> runs[r].team,
                                           user_id |-> runs[r].user,
                                           status |-> "active"])
            /\ runs' = [runs EXCEPT ![r].pc = "updateInvite", ![r].inserted = TRUE]
       ELSE /\ members' = members
            /\ runs' = [runs EXCEPT ![r].pc = "done", ![r].msg = "error"]
    /\ UNCHANGED <<storeVars, gestures, screenVars, profileRows, invites, teams>>

\* declineInvite up to its await: one update of the invite, by id.
declineInvite(u, i) ==
    /\ gestures < MaxGestures
    /\ gestures' = gestures + 1
    /\ invites[i].invited_user_id = u
    /\ invites[i].status = "pending"
    /\ runs' = Append(runs, [op |-> "declineInvite", user |-> u, invite |-> i,
                             team |-> invites[i].team_id, pc |-> "updateInvite",
                             inserted |-> FALSE, msg |-> NULL])
    /\ UNCHANGED <<storeVars, screenVars, profileRows, invites, members, teams>>

\* The store applies the update of the invite (step 2 of acceptInvite, or the
\* update of declineInvite): filtered by id alone.
StoreUpdateInvite(r) ==
    /\ runs[r].op \in {"acceptInvite", "declineInvite"}
    /\ runs[r].pc = "updateInvite"
    /\ invites' = [invites EXCEPT
                      ![runs[r].invite].status =
                          IF runs[r].op = "acceptInvite" THEN "accepted" ELSE "declined"]
    /\ runs' = [runs EXCEPT ![r].pc = "done", ![r].msg = "ok"]
    /\ UNCHANGED <<storeVars, gestures, screenVars, profileRows, members, teams>>

\* A request of a run fails (network, policy): the store applies nothing, the
\* handler throws into its catch and reports the error.
StoreRunError(r) ==
    /\ runs[r].op \in {"invite", "acceptInvite", "declineInvite"}
    /\ runs[r].pc \in {"insert", "insertMember", "updateInvite"}
    /\ runs' = [runs EXCEPT ![r].pc = "done", ![r].msg = "error"]
    /\ UNCHANGED <<storeVars, gestures, screenVars, profileRows, invites, members, teams>>

InitInvites ==
    /\ ScreensInit
    /\ gestures = 2
    /\ profiles = [u \in Users |-> InitialTeam(u)]
    /\ AccountInit

NextInvites ==
    \/ \E u \in Hosts, target \in InvitedUsers : invite(u, InitialTeam(u), target)
    \/ \E r \in RunIds : inviteSelected(r)
    \/ \E r \in RunIds : StoreInsertInvite(r)
    \/ \E u \in InvitedUsers, i \in InviteIds : acceptInvite(u, i)
    \/ \E r \in RunIds : StoreInsertMember(r)
    \/ \E u \in InvitedUsers, i \in InviteIds : declineInvite(u, i)
    \/ \E r \in RunIds : StoreUpdateInvite(r)
    \/ \E r \in RunIds : StoreRunError(r)

SpecInvites == InitInvites /\ [][NextInvites]_vars

\* --------------------------------------------------------------- team form
\* The team form in edit mode (create-team.tsx, route param id).  The Save
\* button is shown to whoever opened the form, the Delete button only if the
\* loaded team's owner_id is the user; owner_id is set by onCreate and never
\* updated.  A deleted team is NoTeam.
NoTeam == [owner_id |-> NULL, name |-> 0]

\* The scenario: the forms are opened on the teams A and B (B is owned by the
\* user who plays for two teams), and a save renames the team.
EditedTeams == {"A", "B"}
TeamNames == {2}

\* The filter with the owner test dropped: .eq('id', teamIdParam) alone.
TeamMatchesIdOnly(tbl, t, u) == tbl[t] # NoTeam

\* The filter of both writes: .eq('id', teamIdParam).eq('owner_id', userId).
TeamMatches(tbl, t, u) == tbl[t] # NoTeam /\ tbl[t].owner_id = u

\* onSaveChanges up to its await: the update of the team with the form's name.
onSaveChanges(u, t, n) ==
    /\ gestures < MaxGestures
    /\ gestures' = gestures + 1
    /\ runs' = Append(runs, [op |-> "onSaveChanges", user |-> u, team |-> t,
                             name |-> n, pc |-> "sent", msg |-> NULL])
    /\ UNCHANGED <<storeVars, screenVars, profileRows, invites, members, teams>>

\* onDeleteTeam, confirmed in the alert, up to its first await; the button is
\* rendered under isOwner.
onDeleteTeam(u, t) ==
    /\ gestures < MaxGestures
    /\ gestures' = gestures + 1
    /\ OwnerOf(t) = u
    /\ runs' = Append(runs, [op |-> "onDeleteTeam", user |-> u, team |-> t,
                             name |-> 0, pc |-> "sent", msg |-> NULL])
    /\ UNCHANGED <<storeVars, screenVars, profileRows, invites, members, teams>>

\* The store applies the update; the handler reads the row it returns, or
\* reports 'Not allowed' when it returns none.
StoreUpdateTeam(r) ==
    /\ runs[r].op = "onSaveChanges"
    /\ runs[r].pc = "sent"
    /\ IF TeamMatches(teams, runs[r].team, runs[r].user)
       THEN /\ teams' = [teams EXCEPT ![runs[r].team].name = runs[r].name]
            /\ runs' = [runs EXCEPT ![r].pc = "done", ![r].msg = "Saved"]
       ELSE /\ teams' = teams
            /\ runs' = [runs EXCEPT ![r].pc = "done", ![r].msg = "Not allowed"]
    /\ UNCHANGED <<storeVars, gestures, screenVars, profileRows, invites, members>>

\* The store applies the delete; with a row returned the handler goes on to
\* clear its user's primary team, without one it reports 'Not allowed'.
StoreDeleteTeam(r) ==
    /\ runs[r].op = "onDeleteTeam"
    /\ runs[r].pc = "sent"
    /\ IF TeamMatches(teams, runs[r].team, runs[r].user)
       THEN /\ teams' = [teams EXCEPT ![runs[r].team] = NoTeam]
            /\ runs' = [runs EXCEPT ![r].pc = "clear"]
       ELSE /\ teams' = teams
            /\ runs' = [runs EXCEPT ![r].pc = "done", ![r].msg = "Not allowed"]
    /\ UNCHANGED <<storeVars, gestures, screenVars, profileRows, invites, members>>

\* The store applies the update of Profiles:
\* .eq('id', userId).eq('primary_team_id', teamIdParam).
StoreClearPrimary(r) ==
    /\ runs[r].op = "onDeleteTeam"
    /\ runs[r].pc = "clear"
    /\ profiles' = [profiles EXCEPT
                       ![runs[r].user] = IF @ = runs[r].team THEN NULL ELSE @]
    /\ runs' = [runs EXCEPT ![r].pc = "done", ![r].msg = "Deleted"]
    /\ UNCHANGED <<scrims, gestures, screenVars, profileRows, invites, members, teams>>

\* A request fails and the store applies nothing: the update or the delete
\* throws into the catch; the result of the Profiles update is not looked at.
StoreTeamError(r) ==
    /\ runs[r].op \in {"onSaveChanges", "onDeleteTeam"}
    /\ runs[r].pc \in {"sent", "clear"}
    /\ runs' = [runs EXCEPT ![r].pc = "done",
                            ![r].msg = IF runs[r].pc = "clear" THEN "Deleted" ELSE "error"]
    /\ UNCHANGED <<storeVars, gestures, screenVars, profileRows, invites, members, teams>>

InitTeams ==
    /\ ScreensInit
    /\ gestures = 2
    /\ profiles = [u \in Users |-> InitialTeam(u)]
    /\ AccountInit

NextTeams ==
    \/ \E u \in Users, t \in Teams : onSetPrimary(u, t)
    \/ \E u \in Users, t \in EditedTeams, n \in TeamNames : onSaveChanges(u, t, n)
    \/ \E u \in Users, t \in EditedTeams : onDeleteTeam(u, t)
    \/ \E r \in RunIds : StoreUpdateTeam(r)
    \/ \E r \in RunIds : StoreDeleteTeam(r)
    \/ \E r \in RunIds : StoreClearPrimary(r)
    \/ \E r \in RunIds : StoreTeamError(r)

SpecTeams == InitTeams /\ [][NextTeams]_vars

\* ================================================================ claims
AcceptCalls(id) == {c \in CallIds : calls[c].kind = "accept" /\ calls[c].scrimId = id}
CancelCalls(id) == {c \in CallIds : calls[c].kind = "cancel" /\ calls[c].scrimId = id}
\* The handler has seen the reply of its update and taken its branch.
Observed(c) == calls[c].pc \in {"reload", "done"}
Winners(id) == {c \in AcceptCalls(id) : calls[c].reply = "row"}

\* C1 -- Mutual exclusion.  Take a slot on which accepts were issued, all of
\* them answered by the store without a store failure, and which no cancel has
\* reached: exactly one of the accepts observed success, every other one
\* observed "already taken", and the row is confirmed with the winner's team as
\* its opponent.
C1_MutualExclusion ==
    \A id \in SlotIds :
        LET A == AcceptCalls(id) IN
        ( /\ A # {}
          /\ \A c \in A : Observed(c) /\ calls[c].branch # "error"
          /\ \A c \in CancelCalls(id) : calls[c].reply \in {"none", "error"} )
        => /\ Cardinality({c \in A : calls[c].branch = "success"}) = 1
           /\ \A c \in A : calls[c].branch \in {"success", "taken"}
           /\ scrims[id].status = "confirmed"
           /\ scrims[id].opponent_team_id # NULL
           /\ \A c \in A : calls[c].branch = "success"
                              => scrims[id].opponent_team_id = calls[c].team

\* Two accepts of distinct teams on one slot have both ended, one with
\* success and one with "already taken".
C1_Witness ==
    \E id \in SlotIds : \E c1, c2 \in AcceptCalls(id) :
        /\ calls[c1].team # calls[c2].team
        /\ calls[c1].pc = "done" /\ calls[c1].branch = "success"
        /\ calls[c2].pc = "done" /\ calls[c2].branch = "taken"

\* C2 -- Idempotent failure.  At most one accept per slot is ever answered
\* with a row, the row keeps the winner's team as opponent from then on, and
\* an accept the store applies after a success gets no row and changes nothing.
C2_AtMostOneWinner ==
    \A id \in SlotIds :
        /\ Cardinality(Winners(id)) <= 1
        /\ \A c \in Winners(id) : scrims[id].opponent_team_id = calls[c].team
        /\ \A c \in AcceptCalls(id) :
              Observed(c) => (calls[c].branch = "success" <=> c \in Winners(id))

C2_LaterAcceptFails ==
    \A c \in CallIds :
        ( /\ calls[c].kind = "accept"
          /\ calls[c].pc = "sent"
          /\ calls'[c].pc = "replied"
          /\ calls'[c].reply # "error"
          /\ Winners(calls[c].scrimId) # {} )
        => /\ calls'[c].reply = "empty"
           /\ scrims' = scrims

C2_IdempotentFailure == [](C2_AtMostOneWinner) /\ [][C2_LaterAcceptFails]_vars

\* An accept issued after another one had already ended in success has been
\* answered with no row.
C2_Witness ==
    \E id \in SlotIds : \E c1, c2 \in AcceptCalls(id) :
        /\ c1 < c2
        /\ calls[c1].branch = "success"
        /\ calls[c2].branch = "taken"
        /\ scrims[id].opponent_team_id = calls[c1].team

\* C3 -- No partial state.  Once the store has answered an accept (with a
\* row, with no row, or with an error), the slot it names is neither confirmed
\* without an opponent nor open with an opponent.
C3_NoPartialState ==
    \A c \in CallIds :
        (calls[c].kind = "accept" /\ calls[c].pc # "sent")
        => LET row == scrims[calls[c].scrimId] IN
           /\ ~(row.status = "confirmed" /\ row.opponent_team_id = NULL)
           /\ ~(row.status = "open" /\ row.opponent_team_id # NULL)

\* Two accepts on one slot have ended, one with a store error and one with
\* success.
C3_Witness ==
    \E c1, c2 \in CallIds :
        /\ calls[c1].kind = "accept" /\ calls[c2].kind = "accept"
        /\ calls[c1].scrimId = calls[c2].scrimId
        /\ calls[c1].pc = "done" /\ calls[c1].branch = "error"
        /\ calls[c2].pc = "done" /\ calls[c2].branch = "success"

\* C4 -- Success effect.  When the store answers an accept of team T on slot
\* S, it answers with the row exactly if S was open with no opponent at that
\* moment, and then S is confirmed with opponent T; the handler takes the
\* success branch exactly if it was answered with the row.
C4_StoreStep ==
    \A c \in CallIds :
        ( /\ calls[c].kind = "accept"
          /\ calls[c].pc = "sent"
          /\ calls'[c].pc = "replied"
          /\ calls'[c].reply # "error" )
        => LET id == calls[c].scrimId IN
           /\ calls'[c].reply = "row"
                <=> ( /\ id \in SlotIds
                      /\ scrims[id].status = "open"
                      /\ scrims[id].opponent_team_id = NULL )
           /\ calls'[c].reply = "row"
                => /\ scrims'[id].status = "confirmed"
                   /\ scrims'[id].opponent_team_id = calls[c].team

C4_Branch ==
    \A c \in CallIds :
        (calls[c].kind = "accept" /\ Observed(c))
        => (calls[c].branch = "success" <=> calls[c].reply = "row")

C4_SuccessEffect == [](C4_Branch) /\ [][C4_StoreStep]_vars

\* An accept has ended in success and its slot shows its team as opponent.
C4_Witness ==
    \E c \in CallIds :
        /\ calls[c].kind = "accept"
        /\ calls[c].pc = "done"
        /\ calls[c].branch = "success"
        /\ scrims[calls[c].scrimId].status = "confirmed"
        /\ scrims[calls[c].scrimId].opponent_team_id = calls[c].team

\* C5 -- Write count.  The step in which the store answers an accept with the
\* row applies one update to that row and leaves every other row as it was;
\* the step in which it answers with no row leaves the whole table as it was;
\* and no later step of the accept (its branch, its reload) changes the table.
C5_WriteCount_Step ==
    \A c \in CallIds :
        calls[c].kind = "accept"
        => LET id == calls[c].scrimId IN
           /\ (calls[c].pc = "sent" /\ calls'[c].reply = "row")
                => /\ scrims'[id].writes = scrims[id].writes + 1
                   /\ \A o \in SlotIds \ {id} : scrims'[o] = scrims[o]
                   /\ Len(scrims') = Len(scrims)
           /\ (calls[c].pc = "sent" /\ calls'[c].reply = "empty")
                => scrims' = scrims
           /\ (calls[c].pc # "sent" /\ calls'[c] # calls[c])
                => scrims' = scrims

C5_WriteCount == [][C5_WriteCount_Step]_vars

\* An accept was answered with no row while its slot had already been written
\* by another call, and a second slot exists.
C5_Witness ==
    \E c \in CallIds :
        /\ calls[c].kind = "accept"
        /\ calls[c].pc = "done"
        /\ calls[c].branch = "taken"
        /\ scrims[calls[c].scrimId].writes = 1
        /\ Len(scrims) = 2

\* C6 -- Write-time check.  When the store answers an accept whose slot is no
\* longer open (confirmed or cancelled since the screen read it), it answers
\* with no row and changes nothing, whatever the copy on the screen says.
C6_WriteTimeCheck_Step ==
    \A c \in CallIds :
        ( /\ calls[c].kind = "accept"
          /\ calls[c].pc = "sent"
          /\ calls'[c].pc = "replied"
          /\ calls'[c].reply # "error"
          /\ scrims[calls[c].scrimId].status \in {"confirmed", "cancelled"} )
        => /\ calls'[c].reply = "empty"
           /\ scrims' = scrims

C6_WriteTimeCheck == [][C6_WriteTimeCheck_Step]_vars

\* ScrimDetails still shows the slot as open and untaken while the store has
\* answered the screen's accept with no row, the slot being cancelled.
C6_Witness ==
    \E c \in CallIds :
        /\ calls[c].kind = "accept"
        /\ calls[c].screen = "details"
        /\ calls[c].pc = "replied"
        /\ calls[c].reply = "empty"
        /\ sdScrim[calls[c].user].status = "open"
        /\ sdScrim[calls[c].user].opponent_team_id = NULL
        /\ scrims[calls[c].scrimId].status = "cancelled"

\* C7 -- Not-claimed is a value, not an error.  An accept answered with no row
\* takes the "already taken" branch, an accept whose store call failed takes the
\* error branch, and neither ever takes the other's branch.
C7_NotClaimedIsNotAnError ==
    \A c \in CallIds :
        (calls[c].kind = "accept" /\ Observed(c))
        => /\ calls[c].reply = "empty" <=> calls[c].branch = "taken"
           /\ calls[c].reply = "error" <=> calls[c].branch = "error"

\* One accept has ended "already taken".
C7_Witness ==
    \E c \in CallIds :
        /\ calls[c].kind = "accept"
        /\ calls[c].pc = "done"
        /\ calls[c].reply = "empty"
        /\ calls[c].branch = "taken"

\* C8 -- Self-claim rejection (the claim as stated): no accept whose team is
\* the slot's host team is answered with the row.
C8_SelfClaimRejected ==
    \A c \in CallIds :
        ( /\ calls[c].kind = "accept"
          /\ calls[c].team = scrims[calls[c].scrimId].host_team_id )
        => calls[c].reply # "row"

\* C9 -- Invariant I3 (the claim as stated): no slot has its host team as its
\* opponent.
C9_HostIsNotOpponent ==
    \A id \in SlotIds : scrims[id].opponent_team_id # scrims[id].host_team_id

\* C10 -- Invariant I1 (the claim as stated): a slot has an opponent exactly if
\* some accept on it has succeeded.
C10_OpponentIffClaimed ==
    \A id \in SlotIds : scrims[id].opponent_team_id # NULL <=> Winners(id) # {}

\* C11 -- Invariant I2 (the claim as stated): a step changes the status of a
\* slot only if the slot is open before the step.
C11_OnlyOutOfOpen ==
    [][\A id \in SlotIds :
          scrims'[id].status # scrims[id].status => scrims[id].status = "open"]_vars

\* The store applies, in this step, an update of the given kind on slot id and
\* answers it with the given reply.
Applied(kind, id, reply) ==
    \E c \in CallIds :
        /\ calls[c].kind = kind
        /\ calls[c].scrimId = id
        /\ calls[c].pc = "sent"
        /\ calls'[c].reply = reply

\* C11 -- Invariant I2, amended.  Every change of a slot's status is either
\* open to confirmed, made by an accept the store answers with the row, or open
\* or confirmed to cancelled, made by a cancel; so an accept never changes a
\* slot that is not open, and nothing changes the status of a cancelled slot.
C11_Step ==
    \A id \in SlotIds :
        scrims'[id].status # scrims[id].status
        => \/ /\ scrims[id].status = "open"
              /\ scrims'[id].status = "confirmed"
              /\ Applied("accept", id, "row")
           \/ /\ scrims[id].status \in {"open", "confirmed"}
              /\ scrims'[id].status = "cancelled"
              /\ Applied("cancel", id, "ok")

C11_StatusTransitions == [][C11_Step]_vars

\* A slot that an accept had confirmed has been cancelled by its host, and
\* both handlers have ended.
C11_Witness ==
    \E id \in SlotIds :
        /\ scrims[id].status = "cancelled"
        /\ \E c \in Winners(id) : calls[c].pc = "done"
        /\ \E c \in CancelCalls(id) : calls[c].pc = "done" /\ calls[c].reply = "ok"

\* C12 -- Lifecycle (the claim as stated): a slot is written at most once
\* after it was created.
C12_WrittenAtMostOnce == \A id \in SlotIds : scrims[id].writes <= 1

CancelsApplied(id) == {c \in CancelCalls(id) : calls[c].reply = "ok"}

\* C12 -- Lifecycle, amended.  After it is created a slot is written at most
\* once by accepts (by the one the store answers with the row); every other
\* write is a cancel of its host team, of which there may be several, also
\* after the accept; and no step removes a row from the table.
C12_Writes ==
    \A id \in SlotIds :
        /\ Cardinality(Winners(id)) <= 1
        /\ scrims[id].writes
              = Cardinality(Winners(id)) + Cardinality(CancelsApplied(id))

C12_NeverDeleted ==
    /\ Len(scrims') >= Len(scrims)
    /\ \A id \in SlotIds : scrims'[id].writes >= scrims[id].writes

C12_Lifecycle == [](C12_Writes) /\ [][C12_NeverDeleted]_vars

\* A slot nobody accepted has been cancelled twice, from two screens of its
\* host team.
C12_Witness ==
    \E id \in SlotIds :
        /\ scrims[id].writes = 2
        /\ Winners(id) = {}
        /\ Cardinality(CancelsApplied(id)) = 2

\* C13 -- Nonexistent slot.  An accept for an id the table does not hold is
\* answered with no row and leaves the table as it was, and its handler takes
\* the "already taken" branch, not the error branch.
C13_Step ==
    \A c \in CallIds :
        ( /\ calls[c].kind = "accept"
          /\ calls[c].scrimId \notin SlotIds
          /\ calls[c].pc = "sent"
          /\ calls'[c].pc = "replied"
          /\ calls'[c].reply # "error" )
        => /\ calls'[c].reply = "empty"
           /\ scrims' = scrims

C13_Branch ==
    \A c \in CallIds :
        ( /\ calls[c].kind = "accept"
          /\ calls[c].scrimId \notin SlotIds
          /\ Observed(c)
          /\ calls[c].reply # "error" )
        => calls[c].branch = "taken"

C13_NonexistentSlot == [](C13_Branch) /\ [][C13_Step]_vars

\* Accepts for the slot that is gone have ended "already taken" on both
\* screens, and the table still holds its one row.
C13_Witness ==
    \E c1, c2 \in CallIds :
        /\ calls[c1].screen = "center" /\ calls[c2].screen = "details"
        /\ \A c \in {c1, c2} :
              /\ calls[c].kind = "accept"
              /\ calls[c].scrimId \notin SlotIds
              /\ calls[c].pc = "done"
              /\ calls[c].branch = "taken"
        /\ Len(scrims) = 1

\* C14 -- No automatic retry.  An invocation whose update the store has
\* answered never issues it again; a new invocation appears only with a user
\* gesture, one at a time; and the steps a handler takes after the reply (its
\* branch, its reload) change nothing in the table and start no invocation.
C14_Step ==
    /\ \A c \in CallIds : calls[c].pc # "sent" => calls'[c].pc # "sent"
    /\ Len(calls') # Len(calls)
          => (Len(calls') = Len(calls) + 1 /\ gestures' = gestures + 1)
    /\ \A c \in CallIds :
          (calls[c].pc \in {"replied", "reload"} /\ calls'[c] # calls[c])
          => (scrims' = scrims /\ Len(calls') = Len(calls))

C14_NoAutomaticRetry == [][C14_Step]_vars

\* One accept ended "already taken" and another in a store error; both
\* handlers have ended and no update is in flight.
C14_Witness ==
    \E c1, c2 \in CallIds :
        /\ calls[c1].kind = "accept" /\ calls[c1].branch = "taken"
        /\ calls[c2].kind = "accept" /\ calls[c2].branch = "error"
        /\ \A c \in CallIds : calls[c].pc = "done"

\* C15 -- Retry after store failure (the claim as stated, in its third part):
\* a retry for a slot of the table is answered with no row only if a call
\* other than the retry itself has won the slot.
C15_RetryFailsOnlyIfAnotherWon ==
    \A c \in CallIds :
        ( /\ calls[c].kind = "accept"
          /\ calls[c].retry
          /\ calls[c].scrimId \in SlotIds
          /\ calls[c].reply = "empty" )
        => \E w \in Winners(calls[c].scrimId) : w # c

\* C15 -- Retry after store failure, amended.  With retries among the accepts,
\* a slot still has at most one winner, whose team stays its opponent; the
\* store answers a retry with no row exactly if the slot is, at that moment,
\* not in the table or not open without opponent, which for a slot of the table
\* means an accept has won it or its host has cancelled it; a retry answered
\* with no row changes nothing, and one answered with the row sets its team.
C15_Inv ==
    \A id \in SlotIds :
        /\ Cardinality(Winners(id)) <= 1
        /\ \A w \in Winners(id) : scrims[id].opponent_team_id = calls[w].team

C15_Step ==
    \A c \in CallIds :
        ( /\ calls[c].kind = "accept"
          /\ calls[c].retry
          /\ calls[c].pc = "sent"
          /\ calls'[c].pc = "replied"
          /\ calls'[c].reply # "error" )
        => LET id == calls[c].scrimId IN
           /\ calls'[c].reply = "empty"
                <=> ~( /\ id \in SlotIds
                       /\ scrims[id].status = "open"
                       /\ scrims[id].opponent_team_id = NULL )
           /\ (calls'[c].reply = "empty" /\ id \in SlotIds)
                => (Winners(id) # {} \/ CancelsApplied(id) # {})
           /\ calls'[c].reply = "empty" => scrims' = scrims
           /\ calls'[c].reply = "row"
                => /\ scrims'[id].opponent_team_id = calls[c].team
                   /\ scrims'[id].status = "confirmed"

C15_RetrySafe == [](C15_Inv) /\ [][C15_Step]_vars

\* An accept ended in a store error, another team then won the slot, and the
\* first team's retry has ended "already taken" with the winner still recorded.
C15_Witness ==
    \E c, w \in CallIds :
        /\ calls[c].kind = "accept"
        /\ calls[c].retry
        /\ calls[c].pc = "done"
        /\ calls[c].branch = "taken"
        /\ w \in Winners(calls[c].scrimId)
        /\ calls[w].team # calls[c].team
        /\ scrims[calls[c].scrimId].opponent_team_id = calls[w].team

\* The fields of a row no update names.
Immutable(row) ==
    <<row.host_team_id, row.start_time, row.end_time>>

\* C16 -- Immutable fields and frame.  No step changes the host team or the
\* window of a slot, or the place (id) of a row in the table.  The step in
\* which the store applies an accept changes at most status, opponent_team_id
\* and updated_at of the slot it names; the step in which it applies a cancel
\* changes at most status and updated_at of the slot it names and keeps its
\* opponent_team_id; either leaves every other slot as it was.
C16_Step ==
    /\ \A id \in SlotIds : Immutable(scrims'[id]) = Immutable(scrims[id])
    /\ \A c \in CallIds :
          (calls[c].pc = "sent" /\ calls'[c].pc = "replied")
          => LET id == calls[c].scrimId IN
             /\ Len(scrims') = Len(scrims)
             /\ \A o \in SlotIds \ {id} : scrims'[o] = scrims[o]
             /\ (calls[c].kind = "cancel" /\ id \in SlotIds)
                   => scrims'[id].opponent_team_id = scrims[id].opponent_team_id

C16_Frame == [][C16_Step]_vars

\* Of two slots one, posted with an invited team, has been cancelled and still
\* names that team as its opponent; the other is as it was posted.
C16_Witness ==
    \E id, o \in SlotIds :
        /\ id # o
        /\ scrims[id].status = "cancelled"
        /\ scrims[id].opponent_team_id # NULL
        /\ scrims[o] = Row(scrims[o].host_team_id, scrims[o].opponent_team_id)

\* C17 -- Winner is the first serialized.  The store answers an accept with the
\* row exactly if it is the first accept the store applies to the slot while the
\* slot is open; that accept's team stays the slot's opponent, whatever is
\* applied later, and its handler takes the success branch.
AppliedAccepts(id) == {c \in AcceptCalls(id) : calls[c].reply \in {"row", "empty"}}

C17_Step ==
    \A c \in CallIds :
        ( /\ calls[c].kind = "accept"
          /\ calls[c].pc = "sent"
          /\ calls'[c].pc = "replied"
          /\ calls'[c].reply # "error"
          /\ scrims[calls[c].scrimId].status = "open" )
        => LET id == calls[c].scrimId IN
           /\ calls'[c].reply = "row" <=> AppliedAccepts(id) = {}
           /\ calls'[c].reply = "row"
                 => scrims'[id].opponent_team_id = calls[c].team

C17_Inv ==
    \A id \in SlotIds : \A w \in Winners(id) :
        /\ scrims[id].opponent_team_id = calls[w].team
        /\ Observed(w) => calls[w].branch = "success"
        /\ \A c \in AcceptCalls(id) \ {w} :
              Observed(c) => calls[c].branch # "success"

C17_FirstSerialized == [](C17_Inv) /\ [][C17_Step]_vars

\* Two teams' accepts were in flight together; the one issued later was
\* applied first and succeeded, the one issued earlier was then answered with
\* no row.
C17_Witness ==
    \E id \in SlotIds : \E c1, c2 \in AcceptCalls(id) :
        /\ c1 < c2
        /\ calls[c1].team # calls[c2].team
        /\ calls[c2].branch = "success"
        /\ calls[c1].reply = "empty"
        /\ scrims[id].opponent_team_id = calls[c2].team
        /\ scrims[id].updated_at = calls[c2].ts

\* C18 -- No 'pending'.  Every slot has status open, confirmed or cancelled.
C18_NoPending ==
    \A id \in SlotIds : scrims[id].status \in {"open", "confirmed", "cancelled"}

\* Two slots written by the app: one posted with an invited team and still as
\* inserted, one confirmed by an accept whose handler has ended.
C18_Witness ==
    \E i, j \in SlotIds :
        /\ scrims[i].opponent_team_id # NULL /\ scrims[i].writes = 0
        /\ scrims[j].status = "confirmed"
        /\ \E w \in Winners(j) : calls[w].pc = "done"

\* C19 -- "Already taken" (the claim as stated): whenever an accept has taken
\* the branch that reports that another team accepted first, the slot has an
\* opponent and it is not the caller's team.
C19_AlreadyTakenMeansTaken ==
    \A c \in CallIds :
        (calls[c].kind = "accept" /\ calls[c].branch = "taken")
        => LET row == scrims[calls[c].scrimId] IN
           /\ row.opponent_team_id # NULL
           /\ row.opponent_team_id # calls[c].team

\* C20 -- ScrimCenter's list (the claim as stated): whenever myTeamId is set,
\* no listed slot is hosted by myTeamId, and a listed slot has an opponent only
\* if an accept won it (it had none when the list was loaded).
C20_ListExcludesOwn ==
    \A u \in Users :
        scMyTeamId[u] # NULL
        => \A id \in scOpenScrims[u] :
              /\ scrims[id].host_team_id # scMyTeamId[u]
              /\ scrims[id].opponent_team_id # NULL => Winners(id) # {}

\* C21 -- Accept versus cancel (the claim as stated).  On a slot that is open
\* without opponent the store answers an accept with the row exactly if no
\* cancel has been applied to the slot before; and a slot whose accept has
\* observed success is confirmed with that team as opponent unless a cancel
\* was applied that its host issued from a screen showing the slot confirmed.
C21_Step ==
    \A c \in CallIds :
        ( /\ calls[c].kind = "accept"
          /\ calls[c].pc = "sent"
          /\ calls'[c].pc = "replied"
          /\ calls'[c].reply # "error"
          /\ Winners(calls[c].scrimId) = {} )
        => (calls'[c].reply = "row" <=> CancelsApplied(calls[c].scrimId) = {})

C21_Inv ==
    \A id \in SlotIds : \A w \in Winners(id) :
        calls[w].branch = "success"
        => \/ /\ scrims[id].status = "confirmed"
              /\ scrims[id].opponent_team_id = calls[w].team
           \/ \E c \in CancelsApplied(id) : calls[c].seen = "confirmed"

C21_AcceptVersusCancel == [](C21_Inv) /\ [][C21_Step]_vars

\* C22 -- Cancelled is absorbing.  No step changes the status or the opponent
\* of a slot that is cancelled.
C22_Step ==
    \A id \in SlotIds :
        scrims[id].status = "cancelled"
        => /\ scrims'[id].status = "cancelled"
           /\ scrims'[id].opponent_team_id = scrims[id].opponent_team_id

C22_CancelledIsAbsorbing == [][C22_Step]_vars

\* The store has applied an accept to a slot that was already cancelled; its
\* handler has ended and the slot is still cancelled, without opponent, as the
\* cancel left it.
C22_Witness ==
    \E id \in SlotIds :
        /\ scrims[id].status = "cancelled"
        /\ scrims[id].opponent_team_id = NULL
        /\ \E c \in AcceptCalls(id), k \in CancelsApplied(id) :
              /\ calls[c].pc = "done"
              /\ calls[c].reply = "empty"
              /\ scrims[id].updated_at = calls[k].ts

\* C24 -- Termination.  Given that store calls return, every accept that was
\* issued ends, in the success, the already-taken or the error branch, and
\* stays ended (a behaviour holds finitely many accepts, so from some moment
\* on all of them have ended); and in the step that ends an accept the busy
\* flag it raised is lowered: `refreshing` for ScrimCenter, `acting` for
\* ScrimDetails.
C24_Ends(c) ==
    /\ c \in CallIds
    /\ calls[c].pc = "done"
    /\ calls[c].branch \in {"success", "taken", "error"}

C24_FlagStep ==
    \A c \in CallIds :
        (calls[c].kind = "accept" /\ calls[c].pc # "done" /\ calls'[c].pc = "done")
        => IF calls[c].screen = "center"
           THEN ~scRefreshing'[calls[c].user]
           ELSE ~sdActing'[calls[c].user]

C24_Terminates ==
    /\ <>[](\A c \in CallIds : calls[c].kind = "accept" => C24_Ends(c))
    /\ [][C24_FlagStep]_vars

\* Three accepts have ended, one in each branch, and no busy flag is raised.
C24_Witness ==
    /\ \E c1, c2, c3 \in CallIds :
          /\ calls[c1].kind = "accept" /\ calls[c1].branch = "success"
          /\ calls[c2].kind = "accept" /\ calls[c2].branch = "taken"
          /\ calls[c3].kind = "accept" /\ calls[c3].branch = "error"
    /\ \A c \in CallIds : calls[c].pc = "done"
    /\ \A u \in Users : ~scRefreshing[u] /\ ~sdActing[u]

\* C23 -- Without a team no write happens.  An accept invoked while the
\* screen's myTeamId is null ends at once in the handler's guard: it is never
\* sent to the store and never answered, and the step that records it leaves
\* the table as it was; and no slot is confirmed with a null opponent.
C23_Inv ==
    /\ \A c \in CallIds :
          (calls[c].kind = "accept" /\ calls[c].team = NULL)
          => /\ calls[c].pc = "done"
             /\ calls[c].branch = "noteam"
             /\ calls[c].reply = "none"
    /\ \A id \in SlotIds :
          scrims[id].status = "confirmed" => scrims[id].opponent_team_id # NULL

C23_Step ==
    (/\ Len(calls') = Len(calls) + 1
     /\ calls'[Len(calls')].team = NULL) => scrims' = scrims

C23_NoTeamNoWrite == [](C23_Inv) /\ [][C23_Step]_vars

\* The team-less user has pressed Accept on both screens, and the slot has
\* meanwhile been confirmed for a team.
C23_Witness ==
    /\ \E c \in CallIds : calls[c].screen = "center" /\ calls[c].branch = "noteam"
    /\ \E c \in CallIds : calls[c].screen = "details" /\ calls[c].branch = "noteam"
    /\ \E id \in SlotIds : scrims[id].status = "confirmed"

\* C25 -- Slot creation.  A step adds at most one row to the table, and only
\* as the submit of an open CreateScrim screen whose primaryTeamId and region
\* are set and whose session is live: the row is the table's new last row, has
\* status 'open', the screen's primaryTeamId (the creator's primary team as the
\* screen read it from Profiles) as host_team_id and the invited team, or null
\* if none was picked, as opponent_team_id, and the rows before it stay as
\* they were.  A submit that sets an error message inserts nothing.
C25_Inserted(u) ==
    /\ csForm[u].open
    /\ csPrimaryTeamId[u] # NULL
    /\ csForm[u].region # NULL
    /\ csForm[u].session
    /\ ~csForm'[u].open
    /\ csForm'[u].errorMsg = NULL
    /\ LET row == scrims'[Len(scrims')] IN
          /\ row.status = "open"
          /\ row.host_team_id = csPrimaryTeamId[u]
          /\ row.opponent_team_id \in InviteChoices

C25_Step ==
    /\ Len(scrims') \in {Len(scrims), Len(scrims) + 1}
    /\ Len(scrims') = Len(scrims) + 1
       => /\ \A id \in SlotIds : scrims'[id] = scrims[id]
          /\ \E u \in Users : C25_Inserted(u)
    /\ \A u \in Users :
          (csForm'[u].errorMsg # NULL /\ csForm[u].errorMsg = NULL)
          => /\ scrims' = scrims
             /\ \/ csPrimaryTeamId[u] = NULL
                \/ csForm[u].region = NULL
                \/ ~csForm[u].session

C26_InsertsIssued(u) ==
    {r \in RunIds : runs[r].op = "ensureProfileRow" /\ runs[r].user = u /\ runs[r].issued}

C26_NoDuplicateProfile ==
    \A u \in Users :
        /\ Cardinality(C26_InsertsIssued(u)) <= 1
        /\ profileRows[u] <= 1

\* C27 -- Pending invites are unique (the claim as stated): for every team
\* and invited user the table holds at most one invite with status 'pending'.
C27_OnePendingInvite ==
    \A t \in Teams, u \in Users : Cardinality(PendingInvites(t, u)) <= 1

\* C28 -- Invite acceptance is all-or-nothing (the claim as stated): once an
\* acceptInvite has returned, its invite is 'accepted' exactly if the run
\* inserted the membership row, and is not 'pending' if it did; and the table
\* never holds two membership rows for one user and team.
C28_AllOrNothing ==
    /\ \A r \in RunIds :
          (runs[r].op = "acceptInvite" /\ runs[r].pc = "done")
          => /\ invites[runs[r].invite].status = "accepted" <=> runs[r].inserted
             /\ runs[r].inserted => invites[runs[r].invite].status # "pending"
    /\ \A t \in Teams, u \in Users : Cardinality(MemberRows(t, u)) <= 1

\* C29 -- Owner-only team changes.  A step changes or deletes a team only as
\* the store's application of an onSaveChanges or onDeleteTeam whose user is the
\* team's owner_id at that moment.  A run the store answers while the team is
\* gone or owned by someone else reports 'Not allowed', and that step leaves
\* the teams table and every primary_team_id as they were (a failed request
\* reports its error and changes nothing either).  A primary_team_id is set to
\* null only by the Profiles update of an onDeleteTeam that deleted the team,
\* for that run's user and only if it names the deleted team.
C29_Answered(r) ==
    /\ runs[r].op \in {"onSaveChanges", "onDeleteTeam"}
    /\ runs[r].pc = "sent"
    /\ runs'[r].pc # "sent"

C29_Step ==
    /\ \A t \in Teams :
          teams'[t] # teams[t]
          => \E r \in RunIds :
                /\ C29_Answered(r)
                /\ runs[r].team = t
                /\ teams[t] # NoTeam
                /\ teams[t].owner_id = runs[r].user
    /\ \A r \in RunIds :
          (C29_Answered(r) /\ runs'[r].msg # "error")
          => IF teams[runs[r].team] # NoTeam
                /\ teams[runs[r].team].owner_id = runs[r].user
             THEN runs'[r].msg # "Not allowed"
             ELSE /\ runs'[r].msg = "Not allowed"
                  /\ runs'[r].pc = "done"
                  /\ teams' = teams
                  /\ profiles' = profiles
    /\ \A r \in RunIds :
          (C29_Answered(r) /\ runs'[r].msg = "error")
          => teams' = teams /\ profiles' = profiles
    /\ \A u \in Users :
          (profiles'[u] # profiles[u] /\ profiles'[u] = NULL)
          => \E r \in RunIds :
                /\ runs[r].op = "onDeleteTeam"
                /\ runs[r].pc = "clear"
                /\ runs'[r].pc = "done"
                /\ runs[r].user = u
                /\ runs[r].team = profiles[u]
                /\ teams[runs[r].team] = NoTeam

C29_OwnerOnly == [][C29_Step]_vars

\* Someone who is not the owner saved and was told 'Not allowed', and an owner
\* deleted the team that was their primary team, which was then cleared.
C29_Witness ==
    /\ \E r \in RunIds :
          /\ runs[r].op = "onSaveChanges"
          /\ runs[r].msg = "Not allowed"
          /\ teams[runs[r].team] # NoTeam
          /\ teams[runs[r].team].name = 1
    /\ \E r \in RunIds :
          /\ runs[r].op = "onDeleteTeam"
          /\ runs[r].msg = "Deleted"
          /\ teams[runs[r].team] = NoTeam
          /\ profiles[runs[r].user] = NULL

====
